---- MODULE Spec2Model ----
(***************************************************************************)
(* Model of the class attendance tracker (src/attendance_tracker.py).      *)
(*                                                                         *)
(* The store `students` is the dict AttendanceTracker.students.  A Python  *)
(* dict keeps its keys in insertion order and the reports iterate in that  *)
(* order, so the store is a sequence of entries [id, name, records];       *)
(* `records` is the per-student dict date string -> status, whose own      *)
(* insertion order no method observes (sorted(), .get() and a sum of       *)
(* exactly representable weights), so it is a function.                    *)
(*                                                                         *)
(* Every method is an operator from the store and the arguments to         *)
(* [store, out]: the store after the call and what the call printed or     *)
(* returned.  An action applies one method to the current store and keeps  *)
(* the call (op), the store before it (prev) and its result (out).         *)
(***************************************************************************)
EXTENDS Integers, Sequences, FiniteSets, TLC

VARIABLES students, prev, op, out

vars == <<students, prev, op, out>>

(***************************************************************************)
(* Bounds and input sets                                                   *)
(***************************************************************************)
\* days of the calendar the callers draw dates (and the clock) from
MaxDay == 2

\* largest number of records of one student in the statistics inputs
MaxRecs == 4

StudentIds == {"S001", "S002"}

Names == {"Alice", "Bob"}

\* status arguments of the full machine: a valid letter, a lower-case one,
\* an invalid one
StatusInputs == {"P", "l", "X"}

\* status arguments of the marking machine: every valid letter in both
\* cases and an invalid one
Letters == {"P", "A", "L", "p", "a", "l", "X"}

\* largest number of pairs in a bulk mapping
MaxBulk == 2

\* Python's None, as a value comparable with date objects
None == [none |-> TRUE]

\* datetime.date objects
date(y, m, d) == [year |-> y, month |-> m, day |-> d]

Dates == {date(2024, 3, d) : d \in 1..MaxDay}

(***************************************************************************)
(* Conversions                                                             *)
(***************************************************************************)
\* str(date): the ISO text YYYY-MM-DD.  The three fields are zero padded to
\* a fixed width, so the text is kept as the tuple of its fields; tuples
\* compare field by field as the texts compare character by character.
DateStr(d) == <<d.year, d.month, d.day>>

\* str.upper on the status argument
upper(s) ==
  CASE s = "p" -> "P"
    [] s = "a" -> "A"
    [] s = "l" -> "L"
    [] s = "x" -> "X"
    [] OTHER -> s

\* attendance_date or date.today(): a date object is always truthy
OrToday(attendance_date, today) ==
  IF attendance_date = None THEN today ELSE attendance_date

(***************************************************************************)
(* The dict of students                                                    *)
(***************************************************************************)
\* {} for a records dict
EmptyRecords == [k \in {} |-> "P"]

\* the keys of self.students
Ids(st) == {st[i].id : i \in 1..Len(st)}

\* student_id in self.students
Has(st, id) == \E i \in 1..Len(st) : st[i].id = id

\* position of the key in the dict
Pos(st, id) == CHOOSE i \in 1..Len(st) : st[i].id = id

\* self.students[student_id]
Get(st, id) == st[Pos(st, id)]


\* variant: records = {date_str: status}, which drops the other dates
PutRecord_fresh(records, ds, status) == [k \in {ds} |-> status]

\* records[date_str] = status
PutRecord(records, ds, status) ==
  [k \in DOMAIN records \cup {ds} |-> IF k = ds THEN status ELSE records[k]]

(***************************************************************************)
(* Student management                                                      *)
(***************************************************************************)

\* variant: no membership test, the entry of an enrolled id is replaced
add_student_overwrite(st, student_id, name) ==
  [store |-> IF Has(st, student_id)
             THEN [st EXCEPT ![Pos(st, student_id)] =
                     [id |-> student_id, name |-> name, records |-> EmptyRecords]]
             ELSE Append(st, [id |-> student_id, name |-> name,
                              records |-> EmptyRecords]),
   out |-> <<[kind |-> "info", msg |-> "Added", id |-> student_id, name |-> name]>>]

add_student(st, student_id, name) ==
  IF Has(st, student_id)
  THEN [store |-> st, out |-> <<[kind |-> "warning", msg |-> "already exists", id |-> student_id]>>]
  ELSE [store |-> Append(st, [id |-> student_id, name |-> name,
                              records |-> EmptyRecords]),
        out |-> <<[kind |-> "info", msg |-> "Added", id |-> student_id, name |-> name]>>]


\* variant: the records are cleared but the student stays enrolled
remove_student_clear(st, student_id) ==
  IF ~Has(st, student_id)
  THEN [store |-> st,
        out |-> <<[kind |-> "warning", msg |-> "not found", id |-> student_id]>>]
  ELSE [store |-> [st EXCEPT ![Pos(st, student_id)].records = EmptyRecords],
        out |-> <<[kind |-> "info", msg |-> "Removed", id |-> student_id,
                   name |-> Get(st, student_id).name]>>]

remove_student(st, student_id) ==
  IF ~Has(st, student_id)
  THEN [store |-> st, out |-> <<[kind |-> "warning", msg |-> "not found", id |-> student_id]>>]
  ELSE [store |-> SelectSeq(st, LAMBDA e : e.id # student_id),
        out |-> <<[kind |-> "info", msg |-> "Removed", id |-> student_id,
                   name |-> Get(st, student_id).name]>>]

(***************************************************************************)
(* Attendance marking                                                      *)
(***************************************************************************)
labels(status) ==
  CASE status = "P" -> "Present"
    [] status = "A" -> "Absent"
    [] status = "L" -> "Late"


\* variant: a mark of an unknown id enrols it (records via setdefault)
mark_attendance_create(st, student_id, status_arg, attendance_date, today) ==
  LET status == upper(status_arg) IN
  IF status \notin {"P", "A", "L"}
  THEN [store |-> st, out |-> <<[kind |-> "warning", msg |-> "Invalid status"]>>]
  ELSE LET date_str == DateStr(OrToday(attendance_date, today))
           st1 == IF Has(st, student_id)
                  THEN st
                  ELSE Append(st, [id |-> student_id, name |-> student_id,
                                   records |-> EmptyRecords])
           i == Pos(st1, student_id)
       IN [store |-> [st1 EXCEPT ![i].records =
                         PutRecord(st1[i].records, date_str, status)],
           out |-> <<[kind |-> "info", msg |-> "marked", name |-> st1[i].name,
                      label |-> labels(status), date |-> date_str]>>]

\* variant: the status is stored without the test against P, A, L
mark_attendance_unchecked(st, student_id, status_arg, attendance_date, today) ==
  LET status == upper(status_arg) IN
  IF ~Has(st, student_id)
  THEN [store |-> st,
        out |-> <<[kind |-> "warning", msg |-> "not found", id |-> student_id]>>]
  ELSE LET date_str == DateStr(OrToday(attendance_date, today))
           i == Pos(st, student_id)
       IN [store |-> [st EXCEPT ![i].records =
                         PutRecord(st[i].records, date_str, status)],
           out |-> <<[kind |-> "info", msg |-> "marked", name |-> st[i].name,
                      label |-> status, date |-> date_str]>>]

mark_attendance(st, student_id, status_arg, attendance_date, today) ==
  LET status == upper(status_arg) IN
  IF status \notin {"P", "A", "L"}
  THEN [store |-> st, out |-> <<[kind |-> "warning", msg |-> "Invalid status"]>>]
  ELSE IF ~Has(st, student_id)
  THEN [store |-> st, out |-> <<[kind |-> "warning", msg |-> "not found", id |-> student_id]>>]
  ELSE LET date_str == DateStr(OrToday(attendance_date, today))
           i == Pos(st, student_id)
       IN [store |-> [st EXCEPT ![i].records =
                         PutRecord(st[i].records, date_str, status)],
           out |-> <<[kind |-> "info", msg |-> "marked", name |-> st[i].name,
                      label |-> labels(status), date |-> date_str]>>]

\* for student_id, status in attendance_dict.items(): mark_attendance(...)
\* on the pairs from position i on; attendance_date is already resolved.
RECURSIVE mark_each(_, _, _, _, _)
mark_each(r, attendance_dict, i, attendance_date, today) ==
  IF i > Len(attendance_dict)
  THEN r
  ELSE LET m == mark_attendance(r.store, attendance_dict[i][1],
                                attendance_dict[i][2], attendance_date, today)
       IN mark_each([store |-> m.store, out |-> r.out \o m.out],
                    attendance_dict, i + 1, attendance_date, today)


\* variant: the loop stops at the first pair whose mark is refused
RECURSIVE mark_until_refused(_, _, _, _, _)
mark_until_refused(r, attendance_dict, i, attendance_date, today) ==
  IF i > Len(attendance_dict)
  THEN r
  ELSE LET m == mark_attendance(r.store, attendance_dict[i][1],
                                attendance_dict[i][2], attendance_date, today)
       IN IF m.out[1].kind = "warning"
          THEN [store |-> m.store, out |-> r.out \o m.out]
          ELSE mark_until_refused([store |-> m.store, out |-> r.out \o m.out],
                                  attendance_dict, i + 1, attendance_date, today)

mark_bulk_abort(st, attendance_dict, attendance_date, today) ==
  mark_until_refused([store |-> st, out |-> << >>], attendance_dict, 1,
                     OrToday(attendance_date, today), today)

mark_bulk(st, attendance_dict, attendance_date, today) ==
  mark_each([store |-> st, out |-> << >>], attendance_dict, 1,
            OrToday(attendance_date, today), today)

(***************************************************************************)
(* Statistics                                                              *)
(*                                                                         *)
(* The percentage is a float.  The weights 1.0, 0.5 and 0.0 and their sums *)
(* are exact in binary floating point; the quotient score / len(records)   *)
(* is kept here as the exact fraction [num, den] in lowest terms, which the *)
(* float approximates to within rounding.                                  *)
(***************************************************************************)
RECURSIVE GCD(_, _)
GCD(a, b) == IF b = 0 THEN a ELSE GCD(b, a % b)

Frac(n, d) == [num |-> n \div GCD(n, d), den |-> d \div GCD(n, d)]

\* a + b
FracAdd(a, b) == Frac(a.num * b.den + b.num * a.den, a.den * b.den)

\* a / k for an integer k > 0
FracDivInt(a, k) == Frac(a.num, a.den * k)

\* a * k for an integer k
FracMulInt(a, k) == Frac(a.num * k, a.den)


\* variant: a <= k
FracLess_orEqual(a, k) == a.num <= k * a.den

\* a < k for an integer k
FracLess(a, k) == a.num < k * a.den


\* variant: Late counts as Present
weights_late_full(s) ==
  CASE s = "P" -> Frac(1, 1)
    [] s = "L" -> Frac(1, 1)
    [] s = "A" -> Frac(0, 1)

\* weights = {"P": 1.0, "L": 0.5, "A": 0.0}
weights(s) ==
  CASE s = "P" -> Frac(1, 1)
    [] s = "L" -> Frac(1, 2)
    [] s = "A" -> Frac(0, 1)

\* sum(weights[s] for s in records.values())
RECURSIVE score(_, _)
score(records, keys) ==
  IF keys = {}
  THEN Frac(0, 1)
  ELSE LET k == CHOOSE x \in keys : TRUE
       IN FracAdd(weights(records[k]), score(records, keys \ {k}))

\* the returned value: None or the percentage
get_attendance_percentage(st, student_id) ==
  IF ~Has(st, student_id)
  THEN None
  ELSE LET records == Get(st, student_id).records IN
       IF DOMAIN records = {}
       THEN None
       ELSE FracMulInt(FracDivInt(score(records, DOMAIN records),
                                  Cardinality(DOMAIN records)), 100)

\* the row's percentage column shows pct to one decimal or "N/A"; the row
\* keeps the value that is shown
summary_rows(st) ==
  [i \in 1..Len(st) |->
     LET pct == get_attendance_percentage(st, st[i].id) IN
     [kind |-> "row", name |-> st[i].name, id |-> st[i].id,
      pct_str |-> IF pct # None THEN pct ELSE [na |-> TRUE],
      flag |-> pct # None /\ FracLess(pct, 75)]]

summary_report(st) ==
  IF Len(st) = 0
  THEN [store |-> st, out |-> <<[kind |-> "info", msg |-> "No students enrolled."]>>]
  ELSE [store |-> st,
        out |-> <<[kind |-> "title", msg |-> "Attendance Summary"]>>
                \o summary_rows(st)
                \o <<[kind |-> "legend", msg |-> "Below 75% attendance threshold"]>>]

(***************************************************************************)
(* View records                                                            *)
(***************************************************************************)
\* order of two date strings
StrLess(a, b) ==
  \/ a[1] < b[1]
  \/ a[1] = b[1] /\ a[2] < b[2]
  \/ a[1] = b[1] /\ a[2] = b[2] /\ a[3] < b[3]

\* sorted(...) of a set of date strings
RECURSIVE sorted(_)
sorted(S) ==
  IF S = {}
  THEN << >>
  ELSE LET m == CHOOSE x \in S : \A y \in S : x = y \/ StrLess(x, y)
       IN <<m>> \o sorted(S \ {m})


\* variant: the title of the record carries the threshold warning
view_student_record_flagging(st, student_id) ==
  IF ~Has(st, student_id)
  THEN [store |-> st,
        out |-> <<[kind |-> "warning", msg |-> "not found", id |-> student_id]>>]
  ELSE LET student == Get(st, student_id)
           pct == get_attendance_percentage(st, student_id)
       IN [store |-> st,
           out |-> <<[kind |-> "title", name |-> student.name, id |-> student_id,
                      flag |-> pct # None /\ FracLess(pct, 75)]>>]

view_student_record(st, student_id) ==
  IF ~Has(st, student_id)
  THEN [store |-> st,
        out |-> <<[kind |-> "warning", msg |-> "not found", id |-> student_id]>>]
  ELSE LET student == Get(st, student_id)
           records == student.records
           days == sorted(DOMAIN records)
           pct == get_attendance_percentage(st, student_id)
       IN [store |-> st,
           out |-> <<[kind |-> "title", name |-> student.name, id |-> student_id]>>
                   \o (IF DOMAIN records = {}
                       THEN <<[kind |-> "info", msg |-> "No records found."]>>
                       ELSE [j \in 1..Len(days) |->
                               [kind |-> "line", date |-> days[j],
                                label |-> labels(records[days[j]])]])
                   \o (IF pct # None
                       THEN <<[kind |-> "info", msg |-> "Attendance", pct |-> pct]>>
                       ELSE << >>)]

\* {d for s in self.students.values() for d in s["records"]}
all_dates(st) == sorted(UNION {DOMAIN st[i].records : i \in 1..Len(st)})

\* data["records"].get(d, default)
RecordsGet(records, d, default) ==
  IF d \in DOMAIN records THEN records[d] ELSE default

view_all_records(st) ==
  IF Len(st) = 0
  THEN [store |-> st, out |-> <<[kind |-> "info", msg |-> "No students enrolled."]>>]
  ELSE LET days == all_dates(st) IN
       [store |-> st,
        out |-> <<[kind |-> "header",
                   cols |-> [j \in 1..Len(days) |-> <<days[j][2], days[j][3]>>]]>>
                \o [i \in 1..Len(st) |->
                      [kind |-> "row", name |-> st[i].name, id |-> st[i].id,
                       cells |-> [j \in 1..Len(days) |->
                                    RecordsGet(st[i].records, days[j], "-")]]]]


\* variant: records.setdefault(date_str, "Not marked") instead of .get
view_date_record_setdefault(st, attendance_date) ==
  LET date_str == DateStr(attendance_date) IN
  [store |-> [i \in 1..Len(st) |->
                [st[i] EXCEPT !.records =
                   IF date_str \in DOMAIN st[i].records
                   THEN st[i].records
                   ELSE PutRecord(st[i].records, date_str, "Not marked")]],
   out |-> <<[kind |-> "title", date |-> date_str]>>
           \o [i \in 1..Len(st) |->
                 LET status == RecordsGet(st[i].records, date_str, "Not marked") IN
                 [kind |-> "row", name |-> st[i].name, id |-> st[i].id,
                  label |-> IF status \in {"P", "A", "L"}
                            THEN labels(status) ELSE status]]]

view_date_record(st, attendance_date) ==
  LET date_str == DateStr(attendance_date) IN
  [store |-> st,
   out |-> <<[kind |-> "title", date |-> date_str]>>
           \o [i \in 1..Len(st) |->
                 LET status == RecordsGet(st[i].records, date_str, "Not marked") IN
                 [kind |-> "row", name |-> st[i].name, id |-> st[i].id,
                  label |-> IF status \in {"P", "A", "L"}
                            THEN labels(status) ELSE status]]]

(***************************************************************************)
(* State machine                                                           *)
(*                                                                         *)
(* The tracker is driven by one sequential caller.  A call is one step;    *)
(* the caller then takes the result (Return) before its next call, which   *)
(* forgets the remembered call.                                            *)
(***************************************************************************)
Idle == [name |-> "idle"]

Init ==
  /\ students = << >>
  /\ prev = << >>
  /\ op = Idle
  /\ out = << >>

\* one call: the method's result becomes the state, the call is remembered
Call(o, r) ==
  /\ op = Idle
  /\ students' = r.store
  /\ out' = r.out
  /\ prev' = students
  /\ op' = o

Return ==
  /\ op # Idle
  /\ op' = Idle
  /\ prev' = << >>
  /\ out' = << >>
  /\ UNCHANGED students

\* date.today() is read only when no date is given
Clock(d) == IF d = None THEN Dates ELSE {CHOOSE t \in Dates : TRUE}

\* dict literals {student_id: status} of at most MaxBulk pairs, in order
Mappings ==
  UNION {{m \in [1..n -> StudentIds \X StatusInputs] :
            \A i, j \in 1..n : i # j => m[i][1] # m[j][1]} : n \in 0..MaxBulk}

AddStudent ==
  \E id \in StudentIds, name \in Names :
    Call([name |-> "add_student", id |-> id, sname |-> name],
         add_student(students, id, name))

RemoveStudent ==
  \E id \in StudentIds :
    Call([name |-> "remove_student", id |-> id],
         remove_student(students, id))

MarkAttendanceWith(statuses) ==
  \E id \in StudentIds, s \in statuses, d \in Dates \cup {None} :
    \E today \in Clock(d) :
      Call([name |-> "mark_attendance", id |-> id, status |-> s,
            date |-> OrToday(d, today)],
           mark_attendance(students, id, s, d, today))

MarkAttendance == MarkAttendanceWith(StatusInputs)

MarkBulk ==
  \E m \in Mappings, d \in Dates \cup {None} :
    \E today \in Clock(d) :
      Call([name |-> "mark_bulk", mapping |-> m, date |-> OrToday(d, today)],
           mark_bulk(students, m, d, today))

GetAttendancePercentage ==
  \E id \in StudentIds :
    Call([name |-> "get_attendance_percentage", id |-> id],
         [store |-> students, out |-> get_attendance_percentage(students, id)])

ViewStudentRecord ==
  \E id \in StudentIds :
    Call([name |-> "view_student_record", id |-> id],
         view_student_record(students, id))

ViewAllRecords ==
  Call([name |-> "view_all_records"], view_all_records(students))

ViewDateRecord ==
  \E d \in Dates :
    Call([name |-> "view_date_record", date |-> d],
         view_date_record(students, d))

SummaryReport ==
  Call([name |-> "summary_report"], summary_report(students))

Next ==
  \/ AddStudent
  \/ RemoveStudent
  \/ MarkAttendance
  \/ MarkBulk
  \/ GetAttendancePercentage
  \/ ViewStudentRecord
  \/ ViewAllRecords
  \/ ViewDateRecord
  \/ SummaryReport
  \/ Return

Spec == Init /\ [][Next]_vars

(***************************************************************************)
(* Enrolment and marking on their own, with every status letter.           *)
(***************************************************************************)
MarkAnyLetter == MarkAttendanceWith(Letters)

MarkNext ==
  \/ AddStudent
  \/ MarkAnyLetter
  \/ Return

MarkSpec == Init /\ [][MarkNext]_vars

(***************************************************************************)
(* Statistics on their own: the store is any store of at most two students *)
(* with up to MaxRecs records each (every such store is reachable by adds  *)
(* and marks), and only the two statistics methods are called.             *)
(***************************************************************************)
StatDays(n) == {DateStr(date(2024, 3, d)) : d \in 1..n}

StatRecords == UNION {[StatDays(n) -> {"P", "A", "L"}] : n \in 0..MaxRecs}

Entry(id, name, records) == [id |-> id, name |-> name, records |-> records]

StatStores ==
  {<< >>}
    \cup {<<Entry(id, "Alice", r)>> : id \in StudentIds, r \in StatRecords}
    \cup {<<Entry("S001", "Alice", r1), Entry("S002", "Bob", r2)>> :
            r1 \in StatRecords, r2 \in StatRecords}

StatInit ==
  /\ students \in StatStores
  /\ prev = << >>
  /\ op = Idle
  /\ out = << >>

StatNext ==
  \/ GetAttendancePercentage
  \/ SummaryReport
  \/ Return

StatSpec == StatInit /\ [][StatNext]_vars

(***************************************************************************)
(* Vocabulary of the properties.  These definitions state what a call is   *)
(* expected to do in terms of the remembered call op, the store before it  *)
(* (prev) and the store and result after it (students, out); none of them  *)
(* uses the methods above.                                                 *)
(***************************************************************************)
Status == {"P", "A", "L"}

\* the status letters a caller may pass, in either case
EitherCase == {"P", "A", "L", "p", "a", "l"}

\* the status a letter of EitherCase stands for
Letter(s) ==
  IF s \in {"P", "p"} THEN "P" ELSE IF s \in {"A", "a"} THEN "A" ELSE "L"

RecordsOf(st, id) == (CHOOSE e \in {st[i] : i \in 1..Len(st)} : e.id = id).records

NameOf(st, id) == (CHOOSE e \in {st[i] : i \in 1..Len(st)} : e.id = id).name

Enrolled(st, id) == id \in {st[i].id : i \in 1..Len(st)}

\* same students, in the same order, with the same names
SameRoll(a, b) ==
  /\ Len(a) = Len(b)
  /\ \A i \in 1..Len(a) : a[i].id = b[i].id /\ a[i].name = b[i].name

\* every student but id is in both stores with the same name and records
OthersKept(a, b, id) ==
  /\ {a[i].id : i \in 1..Len(a)} \ {id} = {b[i].id : i \in 1..Len(b)} \ {id}
  /\ \A i \in 1..Len(a) : \A j \in 1..Len(b) :
       a[i].id = b[j].id /\ a[i].id # id => a[i] = b[j]

\* number of records of r with status s
Count(r, s) == Cardinality({k \in DOMAIN r : r[k] = s})

\* the student's percentage is defined and strictly below 75:
\* 100 * (P + L/2) / n < 75  iff  4 * (2P + L) < 6n
Below75(st, id) ==
  /\ Enrolled(st, id)
  /\ DOMAIN RecordsOf(st, id) # {}
  /\ 4 * (2 * Count(RecordsOf(st, id), "P") + Count(RecordsOf(st, id), "L"))
       < 6 * Cardinality(DOMAIN RecordsOf(st, id))

\* the students a report marks with the threshold warning
Flagged(o) ==
  {o[i].id : i \in {j \in 1..Len(o) : "flag" \in DOMAIN o[j] /\ o[j].flag}}

\* the students a report shows
Displayed(o) ==
  {o[i].id : i \in {j \in 1..Len(o) :
                      "id" \in DOMAIN o[j] /\ o[j].kind \in {"row", "title"}}}

\* the call reported a warning and printed nothing else
Warned == Len(out) = 1 /\ out[1].kind = "warning"

(***************************************************************************)
(* C1  A mark with an enrolled id and a status P, A or L in either case    *)
(* upserts exactly one entry: the student's record for the date is the     *)
(* upper-cased status, a prior value for that date is overwritten without  *)
(* the number of records growing, an identical re-mark leaves the store    *)
(* unchanged, and the roll, the names, the student's other dates and every *)
(* other student's records are unchanged.                                  *)
(***************************************************************************)
C1_MarkUpserts ==
  (op.name = "mark_attendance" /\ Enrolled(prev, op.id) /\ op.status \in EitherCase)
    => LET ds == DateStr(op.date)
           before == RecordsOf(prev, op.id)
           after == RecordsOf(students, op.id)
       IN /\ SameRoll(students, prev)
          /\ OthersKept(students, prev, op.id)
          /\ DOMAIN after = DOMAIN before \cup {ds}
          /\ after[ds] = Letter(op.status)
          /\ \A k \in DOMAIN before \ {ds} : after[k] = before[k]
          /\ (ds \in DOMAIN before
                => Cardinality(DOMAIN after) = Cardinality(DOMAIN before))
          /\ (ds \in DOMAIN before /\ before[ds] = Letter(op.status)
                => students = prev)

\* a lower-case mark overwrote a different status of a student who has a
\* record on another date, next to another student with records
C1_Witness ==
  /\ op.name = "mark_attendance"
  /\ op.status = "a"
  /\ Enrolled(prev, op.id)
  /\ DateStr(op.date) \in DOMAIN RecordsOf(prev, op.id)
  /\ RecordsOf(prev, op.id)[DateStr(op.date)] = "L"
  /\ RecordsOf(students, op.id)[DateStr(op.date)] = "A"
  /\ Cardinality(DOMAIN RecordsOf(prev, op.id)) = 2
  /\ \E i \in 1..Len(prev) : prev[i].id # op.id /\ DOMAIN prev[i].records # {}

(***************************************************************************)
(* C2  A mark with a status outside P, A, L (in either case) or with an id *)
(* that is not enrolled is skipped with a warning: the whole store is as   *)
(* before and no student is created for the unknown id.                    *)
(***************************************************************************)
C2_MarkErrorSkipped ==
  (op.name = "mark_attendance"
     /\ (op.status \notin EitherCase \/ ~Enrolled(prev, op.id)))
    => /\ students = prev
       /\ ~(~Enrolled(prev, op.id) /\ Enrolled(students, op.id))
       /\ Warned

\* a valid status for an id that is not enrolled, in a store with records
C2_Witness ==
  /\ op.name = "mark_attendance"
  /\ op.status \in EitherCase
  /\ ~Enrolled(prev, op.id)
  /\ ~Enrolled(students, op.id)
  /\ \E i \in 1..Len(students) : DOMAIN students[i].records # {}

(***************************************************************************)
(* C3  Adding an id that is already enrolled is a no-op: the student's     *)
(* name and records are kept and no other student changes.  Adding an id   *)
(* that is not enrolled creates that student with the given name and no    *)
(* records and leaves all other students unchanged.                        *)
(***************************************************************************)
C3_AddStudent ==
  op.name = "add_student"
    => IF Enrolled(prev, op.id)
       THEN /\ students = prev
            /\ NameOf(students, op.id) = NameOf(prev, op.id)
            /\ RecordsOf(students, op.id) = RecordsOf(prev, op.id)
       ELSE /\ Len(students) = Len(prev) + 1
            /\ Enrolled(students, op.id)
            /\ NameOf(students, op.id) = op.sname
            /\ DOMAIN RecordsOf(students, op.id) = {}
            /\ OthersKept(students, prev, op.id)

\* a second add of an enrolled student who has records, under another name
C3_Witness ==
  /\ op.name = "add_student"
  /\ Enrolled(prev, op.id)
  /\ NameOf(prev, op.id) # op.sname
  /\ NameOf(students, op.id) # op.sname
  /\ DOMAIN RecordsOf(students, op.id) # {}
  /\ Len(students) = 2

(***************************************************************************)
(* C4  Removing an enrolled id removes the student with all the records    *)
(* and leaves every other student unchanged, so the id is not in the store *)
(* afterwards; an add of an id that is not in the store (in particular a   *)
(* removed one) starts with no records; removing an id that is not         *)
(* enrolled leaves the store unchanged.                                    *)
(***************************************************************************)
C4_RemoveStudent ==
  /\ op.name = "remove_student"
       => IF Enrolled(prev, op.id)
          THEN /\ ~Enrolled(students, op.id)
               /\ Len(students) = Len(prev) - 1
               /\ OthersKept(students, prev, op.id)
          ELSE students = prev
  /\ (op.name = "add_student" /\ ~Enrolled(prev, op.id))
       => DOMAIN RecordsOf(students, op.id) = {}

\* a student with records was removed while another student with records stayed
C4_Witness ==
  /\ op.name = "remove_student"
  /\ Enrolled(prev, op.id)
  /\ DOMAIN RecordsOf(prev, op.id) # {}
  /\ ~Enrolled(students, op.id)
  /\ Len(students) = 1
  /\ DOMAIN students[1].records # {}

(***************************************************************************)
(* C5  A bulk mark leaves the store as one mark per pair of the mapping    *)
(* would, all with the same date: every pair with an enrolled id and a     *)
(* valid status is applied, wherever the pairs with an unknown id or an    *)
(* invalid status stand in the mapping, and the failing pairs change       *)
(* nothing.                                                                *)
(***************************************************************************)
\* the pair of the mapping for id is a valid one (the ids of a mapping are distinct)
ValidPair(m, id) == \E i \in 1..Len(m) : m[i][1] = id /\ m[i][2] \in EitherCase

StatusIn(m, id) == Letter(m[CHOOSE i \in 1..Len(m) : m[i][1] = id][2])

C5_BulkMarksEachPair ==
  op.name = "mark_bulk"
    => LET ds == DateStr(op.date) IN
       /\ SameRoll(students, prev)
       /\ \A j \in 1..Len(prev) :
            LET before == prev[j].records
                after == students[j].records
            IN IF ValidPair(op.mapping, prev[j].id)
               THEN /\ DOMAIN after = DOMAIN before \cup {ds}
                    /\ after[ds] = StatusIn(op.mapping, prev[j].id)
                    /\ \A k \in DOMAIN before \ {ds} : after[k] = before[k]
               ELSE after = before

\* a pair with an invalid status stands before a valid pair that was applied
C5_Witness ==
  /\ op.name = "mark_bulk"
  /\ Len(op.mapping) = 2
  /\ op.mapping[1][2] = "X"
  /\ Enrolled(prev, op.mapping[1][1])
  /\ op.mapping[2][2] = "l"
  /\ Enrolled(prev, op.mapping[2][1])
  /\ DateStr(op.date) \notin DOMAIN RecordsOf(prev, op.mapping[2][1])
  /\ RecordsOf(students, op.mapping[2][1])[DateStr(op.date)] = "L"
  /\ RecordsOf(students, op.mapping[1][1]) = RecordsOf(prev, op.mapping[1][1])

(***************************************************************************)
(* C7  In every reachable state the student identifiers are unique, each   *)
(* student has one status per recorded date, and every stored status is    *)
(* P, A or L.                                                              *)
(***************************************************************************)
C7_StoreInvariant ==
  /\ \A i, j \in 1..Len(students) : students[i].id = students[j].id => i = j
  /\ \A i \in 1..Len(students) :
       /\ students[i].records \in [DOMAIN students[i].records -> Status]
       /\ DOMAIN students[i].records \subseteq {DateStr(d) : d \in Dates}

\* two students with records, right after a second add of an enrolled id
C7_Witness ==
  /\ op.name = "add_student"
  /\ Enrolled(prev, op.id)
  /\ Len(students) = 2
  /\ \A i \in 1..Len(students) : Cardinality(DOMAIN students[i].records) = 2
  /\ \E i \in 1..Len(students) : \E k \in DOMAIN students[i].records :
       students[i].records[k] = "L"

(***************************************************************************)
(* C9  The reports and the percentage query never change the store, also   *)
(* for ids that are not enrolled and dates nobody was marked on.           *)
(***************************************************************************)
ReadOps ==
  {"view_student_record", "view_all_records", "view_date_record",
   "summary_report", "get_attendance_percentage"}

C9_ReadsKeepStore == op.name \in ReadOps => students = prev

\* the report of a date on which an enrolled student has no record
C9_Witness ==
  /\ op.name = "view_date_record"
  /\ Len(students) = 2
  /\ DateStr(op.date) \notin DOMAIN students[1].records
  /\ DateStr(op.date) \in DOMAIN students[2].records
  /\ out[2].label = "Not marked"

(***************************************************************************)
(* C6  The percentage is none exactly when the id is not enrolled or the   *)
(* student has no records; otherwise it is                                 *)
(* 100 * (Present + Late / 2) / (number of records), which lies in 0..100, *)
(* depends only on the numbers of P, L and A records, and is 62.5 for the  *)
(* records {P, P, A, L}.                                                   *)
(***************************************************************************)
C6_Percentage ==
  op.name = "get_attendance_percentage"
    => LET absent == ~Enrolled(prev, op.id) \/ DOMAIN RecordsOf(prev, op.id) = {} IN
       /\ (out = None) <=> absent
       /\ ~absent =>
            LET r == RecordsOf(prev, op.id)
                n == Cardinality(DOMAIN r)
                p == Count(r, "P")
                l == Count(r, "L")
                a == Count(r, "A")
            IN /\ out.den > 0
               \* out = 100 * (p + l/2) / n
               /\ out.num * 2 * n = 100 * (2 * p + l) * out.den
               /\ 0 <= out.num /\ out.num <= 100 * out.den
               /\ (p = 2 /\ a = 1 /\ l = 1) => (out.num = 125 /\ out.den = 2)

\* the percentage of a student with the records {P, P, A, L}
C6_Witness ==
  /\ op.name = "get_attendance_percentage"
  /\ Enrolled(prev, op.id)
  /\ Count(RecordsOf(prev, op.id), "P") = 2
  /\ Count(RecordsOf(prev, op.id), "A") = 1
  /\ Count(RecordsOf(prev, op.id), "L") = 1
  /\ out # None
  /\ out.num = 125 /\ out.den = 2

(***************************************************************************)
(* C8  The summary report flags a student if and only if the student's     *)
(* percentage is defined and strictly below 75: a student at exactly 75 or *)
(* above, or with no records, is not flagged.                              *)
(***************************************************************************)
C8_SummaryFlags ==
  op.name = "summary_report"
    => /\ Flagged(out) = {id \in StudentIds : Below75(prev, id)}
       /\ Displayed(out) = {prev[i].id : i \in 1..Len(prev)}

\* a summary with a student at exactly 75 (P, P, P, A), who is not flagged,
\* and a student just below (P, P, L, A: 62.5), who is
C8_Witness ==
  /\ op.name = "summary_report"
  /\ Len(prev) = 2
  /\ Count(prev[1].records, "P") = 3 /\ Count(prev[1].records, "A") = 1
  /\ Cardinality(DOMAIN prev[1].records) = 4
  /\ Count(prev[2].records, "P") = 2 /\ Count(prev[2].records, "L") = 1
  /\ Cardinality(DOMAIN prev[2].records) = 4
  /\ Flagged(out) = {prev[2].id}

(***************************************************************************)
(* C10  As stated: each of the four reports flags every student it shows   *)
(* whose percentage is below 75.                                           *)
(***************************************************************************)
ReportOps ==
  {"view_student_record", "view_all_records", "view_date_record", "summary_report"}

C10_EveryReportFlags ==
  op.name \in ReportOps
    => \A id \in Displayed(out) : Below75(prev, id) => id \in Flagged(out)

(***************************************************************************)
(* C10 as amended: of the four reports only the summary report flags the   *)
(* students it shows whose percentage is below 75; the student record, the *)
(* full sheet and the date report flag no student.                         *)
(***************************************************************************)
C10_OnlySummaryFlags ==
  /\ op.name = "summary_report"
       => \A id \in Displayed(out) : Below75(prev, id) => id \in Flagged(out)
  /\ op.name \in ReportOps \ {"summary_report"} => Flagged(out) = {}

\* the record of a student below 75 is shown without a flag
C10_Witness ==
  /\ op.name = "view_student_record"
  /\ Below75(prev, op.id)
  /\ op.id \in Displayed(out)
  /\ Flagged(out) = {}

====
